---- MODULE Spec2Model ----
(***************************************************************************)
(* A model of two leaf components of american-gut-web:                     *)
(*   amgut/lib/mail.py               send_email                            *)
(*   amgut/handlers/results_portal.py ResultsPortalHandler.get             *)
(* send_email is modelled statement by statement: every call it makes on   *)
(* the SMTP client is appended to `calls` together with the answer of the  *)
(* relay, which is chosen nondeterministically among the outcomes smtplib  *)
(* can produce at that step.                                               *)
(***************************************************************************)
EXTENDS Naturals, Sequences, FiniteSets

VARIABLES
    cfg,        \* AMGUT_CONFIG: smtp_ssl, smtp_host, smtp_port, smtp_user, smtp_password
    ncalls,     \* number of send_email invocations started so far
    pc,         \* position of the current send_email invocation
    args,       \* its arguments: message, subject, recipient, sender
    msg,        \* the local msg (a MIMEText), NoMsg before it is built
    s,          \* the local s: "unbound" or the client object bound to it
    made,       \* client objects constructed in this invocation, in order
    calls,      \* calls issued on s in this invocation, with the relay's answer
    conn,       \* "none", "open" (connect succeeded), "closed" (quit succeeded)
    outcome,    \* "none" while running, "returned", or the exception raised
    db,         \* AG_DATA_ACCESS: the barcode results stored for each user
    nreq,       \* number of GET requests received so far
    hpc,        \* position of the current ResultsPortalHandler.get request
    current_user, \* self.current_user of the request, NoUser when not logged in
    results,    \* the local results of get, NoResults before the lookup returns
    hcalls,     \* calls get issued on its collaborators in this request
    response    \* "none", "page", "redirect" (login page) or "error"

mailvars == <<cfg, ncalls, pc, args, msg, s, made, calls, conn, outcome>>
portalvars == <<db, nreq, hpc, current_user, results, hcalls, response>>
vars == <<mailvars, portalvars>>

----------------------------------------------------------------------------
(* Bounds and input sets *)

MaxCalls == 2
MaxRequests == 2

Bodies     == {"hello", "your results are ready"}
Subjects   == {"AG", "Help"}
DefaultRecipient == "americangut@gmail.com"
Recipients == {DefaultRecipient, "user@example.org"}
Senders    == {"help@example.org", "lab@example.org"}

Hosts     == {"localhost", "smtp.example.org"}
Ports     == {25, 587}
UserNames == {"", "bot"}
Passwords == {"", "pw"}

Configs == [smtp_ssl : BOOLEAN, smtp_host : Hosts, smtp_port : Ports,
            smtp_user : UserNames, smtp_password : Passwords]

UserIds    == {"U1", "U2"}
NoUser     == "None"
ResultSets == {<<>>, <<"b1">>, <<"b2", "b1">>}
NoResults  == <<"unset">>

NoArgs == [message |-> "", subject |-> "", recipient |-> "", sender |-> ""]
NoMsg  == [headers |-> <<>>, payload |-> ""]

----------------------------------------------------------------------------
(* email.mime.text.MIMEText as send_email uses it *)

MIMEText(text) ==
    [headers |-> << <<"Content-Type", "text/plain; charset=\"us-ascii\"">>,
                    <<"MIME-Version", "1.0">>,
                    <<"Content-Transfer-Encoding", "7bit">> >>,
     payload |-> text]

\* msg[name] = val appends a header; it never replaces one.
SetItem(m, name, val) == [m EXCEPT !.headers = Append(@, <<name, val>>)]

\* msg[name] is the value of the first header of that name, or "None".
GetItem(m, name) ==
    LET idx == {i \in 1..Len(m.headers) : m.headers[i][1] = name}
    IN  IF idx = {} THEN "None"
        ELSE m.headers[CHOOSE i \in idx : \A j \in idx : i <= j][2]

\* msg.as_string(): one "Name: value" line per header, an empty line, the payload.
as_string(m) ==
    [i \in 1..Len(m.headers) |-> m.headers[i][1] \o ": " \o m.headers[i][2]]
        \o <<"", m.payload>>

\* A variant that sets From from the recipient and To from the sender.
BuildMessageSwapped(message, subject, sender, recipient) ==
    SetItem(SetItem(SetItem(MIMEText(message), "Subject", subject),
                    "From", recipient),
            "To", sender)

BuildMessage(message, subject, sender, recipient) ==
    SetItem(SetItem(SetItem(MIMEText(message), "Subject", subject),
                    "From", sender),
            "To", recipient)

----------------------------------------------------------------------------
(* smtplib: what each step can answer *)

SMTPExceptions == {"SMTPException", "SMTPServerDisconnected", "SMTPHeloError",
                   "SMTPAuthenticationError", "SMTPRecipientsRefused"}

ConnectResults  == {"ok", "socket.error"}
StarttlsResults == {"ok", "SMTPException", "SMTPHeloError", "ssl.SSLError", "socket.error"}
EhloResults     == {"ok", "SMTPHeloError"}
LoginResults    == {"ok", "SMTPAuthenticationError"}
SendmailResults == {"ok", "SMTPRecipientsRefused"}
QuitResults     == {"ok", "SMTPServerDisconnected"}

\* Variants of the exception handling: no try block at all; a bare except
\* around starttls; a try block that encloses every call on the client.
HandledNothing(op, e) == FALSE
HandledAnyError(op, e) == op = "starttls"
HandledWholeSession(op, e) == e \in SMTPExceptions

\* Whether send_email itself handles exception e raised by the call `op`: the
\* only try block encloses s.starttls() alone, and its except clause names
\* smtplib.SMTPException, which matches that class and its subclasses.
Handled(op, e) == op = "starttls" /\ e \in SMTPExceptions

\* The statement calling `op` got answer r and control goes on to the next statement.
Continues(op, r) == r = "ok" \/ Handled(op, r)

\* Variants of the login test: on the password instead of the user; always.
NeedsLoginByPassword(c) == c.smtp_password # ""
AlwaysLogin(c) == TRUE

\* if AMGUT_CONFIG.smtp_user: the truth value of a string.
NeedsLogin(c) == c.smtp_user # ""

Call(op, a, r) == [op |-> op, args |-> a, result |-> r]

Raise(e) ==
    /\ outcome' = e
    /\ pc' = "done"

----------------------------------------------------------------------------
MailInit ==
    /\ cfg \in Configs
    /\ ncalls = 0
    /\ pc = "idle"
    /\ args = NoArgs
    /\ msg = NoMsg
    /\ s = "unbound"
    /\ made = <<>>
    /\ calls = <<>>
    /\ conn = "none"
    /\ outcome = "none"

PortalInit ==
    /\ db \in [UserIds -> ResultSets]
    /\ nreq = 0
    /\ hpc = "idle"
    /\ current_user = NoUser
    /\ results = NoResults
    /\ hcalls = <<>>
    /\ response = "none"

Init == MailInit /\ PortalInit

\* A caller invokes send_email: fresh locals.
Invoke ==
    /\ pc \in {"idle", "done"}
    /\ ncalls < MaxCalls
    /\ \E m \in Bodies, sub \in Subjects, rcpt \in Recipients, snd \in Senders :
          args' = [message |-> m, subject |-> sub, recipient |-> rcpt, sender |-> snd]
    /\ ncalls' = ncalls + 1
    /\ pc' = "build"
    /\ msg' = NoMsg
    /\ s' = "unbound"
    /\ made' = <<>>
    /\ calls' = <<>>
    /\ conn' = "none"
    /\ outcome' = "none"
    /\ UNCHANGED <<cfg, portalvars>>

\* lines 16-22
Build ==
    /\ pc = "build"
    /\ msg' = BuildMessage(args.message, args.subject, args.sender, args.recipient)
    /\ pc' = "client"
    /\ UNCHANGED <<cfg, ncalls, args, s, made, calls, conn, outcome, portalvars>>

\* lines 26-29: the SMTP_SSL object is constructed and dropped; only the
\* else branch assigns s.
MakeClient ==
    /\ pc = "client"
    /\ IF cfg.smtp_ssl
          THEN /\ made' = Append(made, "SMTP_SSL")
               /\ s' = s
          ELSE /\ made' = Append(made, "SMTP")
               /\ s' = "SMTP"
    /\ pc' = "connect"
    /\ UNCHANGED <<cfg, ncalls, args, msg, calls, conn, outcome, portalvars>>

\* A variant that calls s.connect() with smtplib's defaults.
ConnectDefaults == <<"localhost", 25>>

\* line 30
ConnectArgs == <<cfg.smtp_host, cfg.smtp_port>>

Connect ==
    /\ pc = "connect"
    /\ IF s = "unbound"
          THEN /\ Raise("UnboundLocalError")
               /\ UNCHANGED <<calls, conn>>
          ELSE \E r \in ConnectResults :
                 /\ calls' = Append(calls, Call("connect", ConnectArgs, r))
                 /\ conn' = IF r = "ok" THEN "open" ELSE conn
                 /\ IF Continues("connect", r)
                       THEN /\ pc' = "starttls"
                            /\ UNCHANGED outcome
                       ELSE Raise(r)
    /\ UNCHANGED <<cfg, ncalls, args, msg, s, made, portalvars>>

\* lines 32-35
Starttls ==
    /\ pc = "starttls"
    /\ \E r \in StarttlsResults :
          /\ calls' = Append(calls, Call("starttls", <<>>, r))
          /\ IF Continues("starttls", r)
                THEN /\ pc' = "ehlo"
                     /\ UNCHANGED outcome
                ELSE Raise(r)
    /\ UNCHANGED <<cfg, ncalls, args, msg, s, made, conn, portalvars>>

\* line 36
Ehlo ==
    /\ pc = "ehlo"
    /\ \E r \in EhloResults :
          /\ calls' = Append(calls, Call("ehlo_or_helo_if_needed", <<>>, r))
          /\ IF Continues("ehlo_or_helo_if_needed", r)
                THEN /\ pc' = IF NeedsLogin(cfg) THEN "login" ELSE "sendmail"
                     /\ UNCHANGED outcome
                ELSE Raise(r)
    /\ UNCHANGED <<cfg, ncalls, args, msg, s, made, conn, portalvars>>

\* lines 38-39
LoginArgs == <<cfg.smtp_user, cfg.smtp_password>>

Login ==
    /\ pc = "login"
    /\ \E r \in LoginResults :
          /\ calls' = Append(calls, Call("login", LoginArgs, r))
          /\ IF Continues("login", r)
                THEN /\ pc' = "sendmail"
                     /\ UNCHANGED outcome
                ELSE Raise(r)
    /\ UNCHANGED <<cfg, ncalls, args, msg, s, made, conn, portalvars>>

\* line 41
SendmailArgs == <<args.sender, <<args.recipient>>, as_string(msg)>>

\* A variant that quits in a finally clause around sendmail.
SendmailClosing ==
    /\ pc = "sendmail"
    /\ \E r \in SendmailResults :
          IF r = "ok"
             THEN /\ calls' = Append(calls, Call("sendmail", SendmailArgs, r))
                  /\ pc' = "quit"
                  /\ UNCHANGED <<outcome, conn>>
             ELSE /\ calls' = calls \o <<Call("sendmail", SendmailArgs, r), Call("quit", <<>>, "ok")>>
                  /\ conn' = "closed"
                  /\ Raise(r)
    /\ UNCHANGED <<cfg, ncalls, args, msg, s, made, portalvars>>

Sendmail ==
    /\ pc = "sendmail"
    /\ \E r \in SendmailResults :
          /\ calls' = Append(calls, Call("sendmail", SendmailArgs, r))
          /\ IF Continues("sendmail", r)
                THEN /\ pc' = "quit"
                     /\ UNCHANGED outcome
                ELSE Raise(r)
    /\ UNCHANGED <<cfg, ncalls, args, msg, s, made, conn, portalvars>>

\* line 42
Quit ==
    /\ pc = "quit"
    /\ \E r \in QuitResults :
          /\ calls' = Append(calls, Call("quit", <<>>, r))
          /\ conn' = IF r = "ok" THEN "closed" ELSE conn
          /\ IF Continues("quit", r)
                THEN /\ outcome' = "returned"
                     /\ pc' = "done"
                ELSE Raise(r)
    /\ UNCHANGED <<cfg, ncalls, args, msg, s, made, portalvars>>

MailNext ==
    \/ Invoke
    \/ Build
    \/ MakeClient
    \/ Connect
    \/ Starttls
    \/ Ehlo
    \/ Login
    \/ Sendmail
    \/ Quit

----------------------------------------------------------------------------
(* ResultsPortalHandler.get *)

\* A GET request arrives, with or without a logged-in user.
Request ==
    /\ hpc \in {"idle", "done"}
    /\ nreq < MaxRequests
    /\ current_user' \in UserIds \cup {NoUser}
    /\ nreq' = nreq + 1
    /\ hpc' = "authenticated"
    /\ results' = NoResults
    /\ hcalls' = <<>>
    /\ response' = "none"
    /\ UNCHANGED <<db, mailvars>>

\* line 8, @authenticated: without a current user a GET is redirected to the
\* login page and the body of get does not run.
Authenticated ==
    /\ hpc = "authenticated"
    /\ IF current_user = NoUser
          THEN /\ response' = "redirect"
               /\ hpc' = "done"
          ELSE /\ response' = response
               /\ hpc' = "lookup"
    /\ UNCHANGED <<db, nreq, current_user, results, hcalls, mailvars>>

\* line 10
LookupKey == current_user

Lookup ==
    /\ hpc = "lookup"
    /\ \/ /\ hcalls' = Append(hcalls, Call("get_barcode_results", <<LookupKey>>, db[LookupKey]))
          /\ results' = db[LookupKey]
          /\ hpc' = "render"
          /\ UNCHANGED response
       \/ /\ hcalls' = Append(hcalls, Call("get_barcode_results", <<LookupKey>>, <<"raised">>))
          /\ response' = "error"
          /\ hpc' = "done"
          /\ UNCHANGED results
    /\ UNCHANGED <<db, nreq, current_user, mailvars>>

\* A variant that passes the two keyword arguments the wrong way round.
RenderArgsSwapped == [template |-> "results_portal.html", skid |-> results, results |-> current_user]

\* lines 11-12
RenderArgs == [template |-> "results_portal.html", skid |-> current_user, results |-> results]

Render ==
    /\ hpc = "render"
    /\ hcalls' = Append(hcalls, Call("render", RenderArgs, <<"ok">>))
    /\ response' = "page"
    /\ hpc' = "done"
    /\ UNCHANGED <<db, nreq, current_user, results, mailvars>>

PortalNext ==
    \/ Request
    \/ Authenticated
    \/ Lookup
    \/ Render

----------------------------------------------------------------------------
Next == MailNext \/ PortalNext

Spec == Init /\ [][Next]_vars

\* The two components share no state: each is also checked running alone.
MailSpec == Init /\ [][MailNext]_vars

PortalSpec == Init /\ [][PortalNext]_vars

----------------------------------------------------------------------------
(* Reading the record of calls *)

Idx(cs, op) == {i \in 1..Len(cs) : cs[i].op = op}
Count(cs, op) == Cardinality(Idx(cs, op))
Ops(cs) == [i \in 1..Len(cs) |-> cs[i].op]
AllAccepted(cs) == \A i \in 1..Len(cs) : cs[i].result = "ok"
Failed(cs, i) == cs[i].result # "ok"
Running == pc \notin {"idle", "done"}
Raised == pc = "done" /\ outcome \notin {"none", "returned"}
IsNotEhlo(op) == op # "ehlo_or_helo_if_needed"

----------------------------------------------------------------------------
(* Claims *)

\* C1: with smtp_ssl false, when the starttls step raises an SMTP protocol
\* exception, send_email does not raise at that step: control is at the
\* EHLO/HELO handshake with no error outcome, and when the relay accepts every
\* other step the invocation issues the handshake, the login if a user is
\* configured, sendmail and quit, and returns normally.
C1_StarttlsRejectionDoesNotRaise ==
    \A i \in Idx(calls, "starttls") :
        (~cfg.smtp_ssl /\ calls[i].result \in SMTPExceptions) =>
            /\ i = Len(calls) => (pc = "ehlo" /\ outcome = "none")
            /\ (pc = "done" /\ \A j \in 1..Len(calls) : j # i => calls[j].result = "ok") =>
                  /\ outcome = "returned"
                  /\ Ops(calls) = <<"connect", "starttls", "ehlo_or_helo_if_needed">>
                                    \o (IF cfg.smtp_user # "" THEN <<"login">> ELSE <<>>)
                                    \o <<"sendmail", "quit">>

C1_Witness ==
    /\ ~cfg.smtp_ssl
    /\ cfg.smtp_user = "bot"
    /\ outcome = "returned"
    /\ \E i \in Idx(calls, "starttls") : calls[i].result = "SMTPException"
    /\ Count(calls, "sendmail") = 1

\* C2: when the configured smtp_user is non-empty, an invocation that has
\* reached sendmail has issued exactly one login, before the sendmail, with
\* arguments (smtp_user, smtp_password) of the configuration, and none after.
C2_OneLoginBeforeSendmail ==
    cfg.smtp_user # "" =>
        \A i \in Idx(calls, "sendmail") :
            /\ Count(calls, "login") = 1
            /\ \A j \in Idx(calls, "login") :
                  /\ j < i
                  /\ calls[j].args = <<cfg.smtp_user, cfg.smtp_password>>

C2_Witness ==
    /\ cfg.smtp_user = "bot"
    /\ cfg.smtp_password = "pw"
    /\ pc = "done"
    /\ Count(calls, "sendmail") = 1
    /\ Count(calls, "login") = 1

\* C3: when the configured smtp_user is empty, no login call is issued in any
\* state, whether the invocation succeeds or fails; and with smtp_ssl false
\* and a relay that accepts every step the invocation returns normally.
C3_NoLoginWithoutUser ==
    cfg.smtp_user = "" =>
        /\ Count(calls, "login") = 0
        /\ (~cfg.smtp_ssl /\ pc = "done" /\ AllAccepted(calls)) =>
              (outcome = "returned" /\ Count(calls, "sendmail") = 1)

C3_Witness ==
    /\ cfg.smtp_user = ""
    /\ ~cfg.smtp_ssl
    /\ AllAccepted(calls)
    /\ outcome = "returned"

\* C4: with smtp_ssl false, smtp_user empty and a relay that accepts every
\* step, a finished invocation has issued, in this order and once each, a
\* connect to (smtp_host, smtp_port), a starttls, a sendmail whose recipient
\* list is the one-element list of the recipient argument, and a quit as the
\* last operation, with no login; while it runs, the calls issued so far are
\* a prefix of that order.
C4_ScenarioAOrder ==
    (~cfg.smtp_ssl /\ cfg.smtp_user = "" /\ AllAccepted(calls)) =>
        LET seen == SelectSeq(Ops(calls), IsNotEhlo)
            full == <<"connect", "starttls", "sendmail", "quit">>
        IN  /\ Len(seen) <= 4
            /\ seen = SubSeq(full, 1, Len(seen))
            /\ Count(calls, "ehlo_or_helo_if_needed") <= 1
            /\ \A i \in Idx(calls, "connect") :
                  calls[i].args = <<cfg.smtp_host, cfg.smtp_port>>
            /\ \A i \in Idx(calls, "sendmail") :
                  /\ Len(calls[i].args[2]) = 1
                  /\ calls[i].args[2][1] = args.recipient
            /\ pc = "done" =>
                  /\ seen = full
                  /\ calls[Len(calls)].op = "quit"
                  /\ outcome = "returned"

C4_Witness ==
    /\ ~cfg.smtp_ssl
    /\ cfg.smtp_user = ""
    /\ cfg.smtp_host = "smtp.example.org"
    /\ cfg.smtp_port = 587
    /\ args.recipient = "user@example.org"
    /\ AllAccepted(calls)
    /\ pc = "done"
    /\ Len(calls) = 5

\* C5: with smtp_ssl true and a relay that accepts every step, a finished
\* invocation has returned normally with a client bound, the connection made
\* and the message passed to sendmail for the recipient.
C5_SslInvocationCompletes ==
    (cfg.smtp_ssl /\ pc = "done" /\ AllAccepted(calls)) =>
        /\ outcome = "returned"
        /\ s # "unbound"
        /\ Count(calls, "connect") = 1
        /\ \E i \in Idx(calls, "sendmail") : calls[i].args[2] = <<args.recipient>>

\* C6: the message built from (message, subject, sender, recipient) has
\* Subject = subject, From = sender and To = recipient, and every sendmail
\* call passes envelope sender = sender, envelope recipients = [recipient]
\* and the serialized form of that message, which carries the three header
\* lines and the body.
C6_MessageHeadersAndEnvelope ==
    /\ pc \notin {"idle", "build"} =>
          /\ GetItem(msg, "Subject") = args.subject
          /\ GetItem(msg, "From") = args.sender
          /\ GetItem(msg, "To") = args.recipient
          /\ msg.payload = args.message
    /\ \A i \in Idx(calls, "sendmail") :
          LET wire == calls[i].args[3]
          IN  /\ calls[i].args[1] = args.sender
              /\ calls[i].args[2] = <<args.recipient>>
              /\ wire = as_string(msg)
              /\ \E k \in 1..Len(wire) : wire[k] = "Subject: " \o args.subject
              /\ \E k \in 1..Len(wire) : wire[k] = "From: " \o args.sender
              /\ \E k \in 1..Len(wire) : wire[k] = "To: " \o args.recipient
              /\ wire[Len(wire)] = args.message
              /\ wire[Len(wire) - 1] = ""

C6_Witness ==
    /\ Count(calls, "sendmail") = 1
    /\ args.sender = "lab@example.org"
    /\ args.recipient = DefaultRecipient
    /\ args.subject = "Help"
    /\ outcome = "returned"

\* C7: a failure at the connect step, or at the login step when smtp_user is
\* non-empty, is not caught: it is the last call of the invocation, the
\* invocation ends with that error as its outcome, and no sendmail is issued.
C7_ConnectAndLoginFailuresPropagate ==
    \A i \in Idx(calls, "connect") \cup Idx(calls, "login") :
        Failed(calls, i) =>
            /\ i = Len(calls)
            /\ pc = "done"
            /\ outcome = calls[i].result
            /\ Count(calls, "sendmail") = 0

C7_Witness ==
    /\ Raised
    /\ cfg.smtp_user = "bot"
    /\ outcome = "SMTPAuthenticationError"
    /\ Len(calls) > 0
    /\ calls[Len(calls)].op = "login"

\* C8: a GET by a logged-in identity performs exactly one lookup keyed by
\* that identity and then exactly one render, with skid the identity and
\* results the value the lookup returned, unchanged; render is never called
\* before the lookup has returned.
C8_LookupThenRender ==
    /\ \A i \in Idx(hcalls, "render") :
          /\ i = 2
          /\ hcalls[1].op = "get_barcode_results"
          /\ hcalls[1].args = <<current_user>>
          /\ hcalls[1].result = db[current_user]
          /\ hcalls[i].args.skid = current_user
          /\ hcalls[i].args.results = hcalls[1].result
          /\ hcalls[i].args.template = "results_portal.html"
    /\ response = "page" =>
          /\ current_user \in UserIds
          /\ Count(hcalls, "get_barcode_results") = 1
          /\ Count(hcalls, "render") = 1
    /\ Len(hcalls) <= 2

C8_Witness ==
    /\ response = "page"
    /\ current_user = "U1"
    /\ db["U1"] = <<"b2", "b1">>
    /\ db["U2"] = <<>>
    /\ Count(hcalls, "render") = 1

\* C9: an invocation issues at most one connect; a quit is issued only
\* directly after a sendmail the relay accepted; when the invocation ends in
\* an error after connect succeeded and before quit, the connection is still
\* open and no quit was issued; when it returns normally, the connection
\* opened by its one connect has been closed by its one quit.
C9_QuitOnlyOnSuccessPath ==
    /\ Count(calls, "connect") <= 1
    /\ \A i \in Idx(calls, "quit") :
          /\ i > 1
          /\ calls[i - 1].op = "sendmail"
          /\ calls[i - 1].result = "ok"
    /\ \A i \in Idx(calls, "login") \cup Idx(calls, "sendmail") :
          Failed(calls, i) =>
              /\ pc = "done"
              /\ conn = "open"
              /\ Count(calls, "quit") = 0
    /\ outcome = "returned" =>
          /\ conn = "closed"
          /\ Count(calls, "connect") = 1
          /\ Count(calls, "quit") = 1
          /\ calls[Len(calls)].op = "quit"

C9_Witness ==
    /\ Raised
    /\ Len(calls) > 0
    /\ calls[Len(calls)].op = "sendmail"
    /\ outcome = "SMTPRecipientsRefused"
    /\ conn = "open"

\* C10: of the errors the steps raise, only an SMTP protocol exception of the
\* starttls step is swallowed: when starttls fails with any other error the
\* invocation ends there with that error and issues no login, sendmail or
\* quit; and a failed call that the invocation went past is a starttls that
\* raised an SMTP protocol exception.
C10_OnlySmtpExceptionOfStarttlsSwallowed ==
    /\ \A i \in Idx(calls, "starttls") :
          (Failed(calls, i) /\ calls[i].result \notin SMTPExceptions) =>
              /\ i = Len(calls)
              /\ pc = "done"
              /\ outcome = calls[i].result
              /\ Count(calls, "login") = 0
              /\ Count(calls, "sendmail") = 0
              /\ Count(calls, "quit") = 0
    /\ \A i \in 1..Len(calls) :
          (Failed(calls, i) /\ (i < Len(calls) \/ Running \/ outcome = "returned")) =>
              /\ calls[i].op = "starttls"
              /\ calls[i].result \in SMTPExceptions

C10_Witness ==
    /\ Raised
    /\ outcome = "ssl.SSLError"
    /\ Len(calls) > 0
    /\ calls[Len(calls)].op = "starttls"
    /\ conn = "open"

====
